---- MODULE Spec2Model ----
(***************************************************************************)
(* Authentication and session-cache subsystem of the contacts backend:     *)
(* the route handlers of app/routes/user.py over the users table           *)
(* (app/models/user.py), the Redis profile cache (app/crud/user.py) and    *)
(* the token and password helpers of app/core/auth.py.                     *)
(*                                                                         *)
(* Every handler is a coroutine; other requests can run at each await.     *)
(* One action models the code of a handler from one await to the next,     *)
(* the store round trip of that await included.  Optional values (Python   *)
(* None) are sets with at most one element.                                *)
(***************************************************************************)
EXTENDS Integers, FiniteSets, Sequences, TLC

\* ---------------------------------------------------------------- bounds
TickSeconds == 1800
MaxTicks == 2
MaxResetTicks == 3
MaxRegs == 2

\* ------------------------------------------------------ program constants
ACCESS_TOKEN_EXPIRE_MINUTES == 30
TOKEN_EXPIRATION_SECONDS == 3600
REDIS_EX == 3600
RESET_PASSWORD_SALT == "password-reset-salt"
SECRET_KEY == "SECRET_KEY"
ALGORITHM == "HS256"

\* ------------------------------------------------------------ input sets
AdminEmail == "admin@x.com"
Emails == {AdminEmail, "a@x.com"}
Passwords == {"pw123456", "pw654321"}
Urls == {"https://res.cloudinary.com/1.jpg", "https://res.cloudinary.com/2.jpg"}
Slots == {1, 2}

VARIABLES users, cache, now, req, last, sessionToken, resetToken, regLog,
          contacts, contacts_id_seq

\* The contacts table and the sequence of its primary key.
contactVars == <<contacts, contacts_id_seq>>

\* The stores and the token wallets of the authentication subsystem.
authVars == <<users, cache, now, sessionToken, resetToken, regLog>>

vars == <<users, cache, now, req, last, sessionToken, resetToken, regLog,
          contacts, contacts_id_seq>>

\* ------------------------------------------------------ Credential Hasher
\* CryptContext(schemes=["bcrypt"]): bcrypt reads the first 72 bytes of the
\* secret and the context does not refuse a longer one.
truncate_size == 72

\* bcrypt: a one-way digest; the hash string carries the scheme.
Digest(password) ==
    <<"$2b$", IF Len(password) <= truncate_size
              THEN password
              ELSE SubSeq(password, 1, truncate_size)>>

get_password_hash(password) ==
    [scheme |-> "bcrypt", digest |-> Digest(password)]

\* A verification that accepts every password.
verify_password_any(plain_password, hashed_password) ==
    hashed_password.scheme = "bcrypt"

verify_password(plain_password, hashed_password) ==
    /\ hashed_password.scheme = "bcrypt"
    /\ hashed_password.digest = Digest(plain_password)

\* -------------------------------------------------------- users table
\* Column defaults of the User model.
User(id, email, hashed_password) ==
    [id |-> id, email |-> email, hashed_password |-> hashed_password,
     is_active |-> TRUE, is_verified |-> FALSE, avatar_url |-> {},
     role |-> "user"]

\* select(User).where(User.email == email) ... scalars().first()
get_user_by_email(db, email) == {u \in db : u.email = email}

\* db.refresh(obj): reload the row of the object's primary key.
db_refresh(db, obj) == CHOOSE u \in db : u.id = obj.id

\* The users table without the unique constraint on email.
UniqueViolation_unenforced(db, email) == FALSE

\* INSERT under the unique constraint on users.email.
UniqueViolation(db, email) == \E u \in db : u.email = email

\* autoincrement primary key
NextId(db) == Cardinality(db) + 1

\* ------------------------------------------------------------ Redis
UserKey(email) == "user:" \o email

Keys == {UserKey(e) : e \in Emails}

\* redis.get: a key whose expiry has passed is absent.
redis_get(rds, key, t) ==
    {x.value : x \in {y \in rds[key] : t < y.expires}}

\* redis.set(key, value, ex=seconds)
redis_set(rds, key, value, ex, t) ==
    [rds EXCEPT ![key] = {[value |-> value, expires |-> t + ex]}]

\* Redis drops the keys whose expiry has passed.
redis_expire(rds, t) ==
    [k \in DOMAIN rds |-> {y \in rds[k] : t < y.expires}]

\* A snapshot that leaves the role out: the loader takes the default.
UserData_norole(user) ==
    [id |-> user.id, email |-> user.email,
     hashed_password |-> user.hashed_password,
     is_active |-> (user.is_active = TRUE),
     is_verified |-> (user.is_verified = TRUE),
     avatar_url |-> user.avatar_url, role |-> "user"]

\* A snapshot that leaves the avatar out.
UserData_noavatar(user) ==
    [id |-> user.id, email |-> user.email,
     hashed_password |-> user.hashed_password,
     is_active |-> (user.is_active = TRUE),
     is_verified |-> (user.is_verified = TRUE),
     avatar_url |-> {}, role |-> user.role]

\* json.dumps of the dict built by store_in_redis
UserData(user) ==
    [id |-> user.id, email |-> user.email,
     hashed_password |-> user.hashed_password,
     is_active |-> (user.is_active = TRUE),
     is_verified |-> (user.is_verified = TRUE),
     avatar_url |-> user.avatar_url, role |-> user.role]

\* A store whose expiry is a minute.
store_in_redis_minute(rds, user, t) ==
    redis_set(rds, UserKey(user.email), UserData(user), REDIS_EX \div 60, t)

\* A store with an expiry of a day.
store_in_redis_day(rds, user, t) ==
    redis_set(rds, UserKey(user.email), UserData(user), 24 * REDIS_EX, t)

store_in_redis(rds, user, t) ==
    redis_set(rds, UserKey(user.email), UserData(user), REDIS_EX, t)

\* json.loads and User(**user_data)
get_user_by_email_from_redis(rds, email, t) ==
    {[id |-> d.id, email |-> d.email, hashed_password |-> d.hashed_password,
      is_active |-> d.is_active, is_verified |-> d.is_verified,
      avatar_url |-> d.avatar_url, role |-> d.role] :
        d \in redis_get(rds, UserKey(email), t)}

\* ---------------------------------------------------------------- tokens
\* A JWT: claims signed with SECRET_KEY under ALGORITHM.  sub is a set: a
\* token can be minted without a subject claim.
Jwt(sub, exp, key) ==
    [fmt |-> "jwt", sub |-> sub, ts |-> exp, salt |-> ALGORITHM, key |-> key]

\* The ttl in minutes added as seconds.
create_access_token_seconds(sub, t) ==
    Jwt({sub}, t + ACCESS_TOKEN_EXPIRE_MINUTES, SECRET_KEY)

create_access_token(sub, t) ==
    Jwt({sub}, t + ACCESS_TOKEN_EXPIRE_MINUTES * 60, SECRET_KEY)

\* A decoder that does not verify the exp claim.
decode_access_token_noexp(token, t) ==
    IF /\ token.fmt = "jwt"
       /\ token.key = SECRET_KEY
       /\ token.salt = ALGORITHM
    THEN {[sub |-> token.sub, exp |-> token.ts]}
    ELSE {}

\* jwt.decode: signature, structure and exp are verified; JWTError -> None.
decode_access_token(token, t) ==
    IF /\ token.fmt = "jwt"
       /\ token.key = SECRET_KEY
       /\ token.salt = ALGORITHM
       /\ t <= token.ts
    THEN {[sub |-> token.sub, exp |-> token.ts]}
    ELSE {}

\* serializer.dumps(email, salt=RESET_PASSWORD_SALT): payload, timestamp of
\* issue, signature under the salted key.
generate_reset_token(email, t) ==
    [fmt |-> "itsdangerous", sub |-> {email}, ts |-> t,
     salt |-> RESET_PASSWORD_SALT, key |-> SECRET_KEY]

\* A verification that refuses a token issued before the latest change of
\* the password of its identity: a token serves once.
verify_reset_token_once(token, t) ==
    IF ~ (/\ token.fmt = "itsdangerous"
          /\ token.key = SECRET_KEY
          /\ token.salt = RESET_PASSWORD_SALT)
    THEN [ok |-> FALSE, email |-> {}, detail |-> "Invalid reset token."]
    ELSE IF t - token.ts > TOKEN_EXPIRATION_SECONDS
    THEN [ok |-> FALSE, email |-> {},
          detail |-> "The reset token has expired."]
    ELSE IF \E e \in token.sub : regLog[e].pwChanged > token.ts
    THEN [ok |-> FALSE, email |-> {}, detail |-> "Invalid reset token."]
    ELSE [ok |-> TRUE, email |-> token.sub, detail |-> ""]

\* A verification under the bare secret: no purpose salt, any signed token.
verify_reset_token_nosalt(token, t) ==
    IF token.key # SECRET_KEY
    THEN [ok |-> FALSE, email |-> {}, detail |-> "Invalid reset token."]
    ELSE IF t - token.ts > TOKEN_EXPIRATION_SECONDS
    THEN [ok |-> FALSE, email |-> {},
          detail |-> "The reset token has expired."]
    ELSE [ok |-> TRUE, email |-> token.sub, detail |-> ""]

\* A verification that takes no max_age.
verify_reset_token_noage(token, t) ==
    IF ~ (/\ token.fmt = "itsdangerous"
          /\ token.key = SECRET_KEY
          /\ token.salt = RESET_PASSWORD_SALT)
    THEN [ok |-> FALSE, email |-> {}, detail |-> "Invalid reset token."]
    ELSE [ok |-> TRUE, email |-> token.sub, detail |-> ""]

\* serializer.loads(token, salt, max_age): the signature is checked first
\* (BadSignature), then the age (SignatureExpired).
verify_reset_token(token, t) ==
    IF ~ (/\ token.fmt = "itsdangerous"
          /\ token.key = SECRET_KEY
          /\ token.salt = RESET_PASSWORD_SALT)
    THEN [ok |-> FALSE, email |-> {}, detail |-> "Invalid reset token."]
    ELSE IF t - token.ts > TOKEN_EXPIRATION_SECONDS
    THEN [ok |-> FALSE, email |-> {},
          detail |-> "The reset token has expired."]
    ELSE [ok |-> TRUE, email |-> token.sub, detail |-> ""]

\* A token with a flipped byte: the signature no longer matches.
Tamper(token) == [token EXCEPT !.key = "tampered"]

\* ------------------------------------------------------------- responses
UserOut(user) ==
    [id |-> user.id, email |-> user.email, is_active |-> user.is_active,
     is_verified |-> user.is_verified, avatar_url |-> user.avatar_url,
     role |-> user.role]

Response(status, detail, body) ==
    [status |-> status, detail |-> detail, body |-> body]

HTTPException(status, detail) == Response(status, detail, {})

\* An exception no handler catches: the framework answers 500.
Unhandled(exc) == Response(500, exc, {})

Message(text) == Response(200, "", {[message |-> text]})

\* ------------------------------------------------------------- requests
\* A request in flight: the handler's locals and its position.  The
\* counters are the round trips it has made to the two stores.
Idle ==
    [op |-> "none", pc |-> "idle", email |-> "", password |-> "",
     token |-> {}, user |-> {}, actor |-> {}, url |-> {},
     upload |-> "none", out |-> {}, dbReads |-> 0, dbWrites |-> 0,
     cacheReads |-> 0, cacheWrites |-> 0]

InFlight(r) == req[r].pc # "idle"

Alone(r) == \A q \in Slots \ {r} : ~ InFlight(q)

\* A new request takes the first free slot.
Free(r) == ~ InFlight(r) /\ \A q \in Slots : q < r => InFlight(q)

\* The handler of slot r runs on to its next await.  last is the response
\* the latest step has sent, if it has sent one.
Await(r, rec) ==
    /\ req' = [req EXCEPT ![r] = rec]
    /\ last' = Idle

\* The handler of slot r returns or raises: the response goes to the
\* client and the slot is free.
Respond(r, rec, out) ==
    /\ req' = [req EXCEPT ![r] = Idle]
    /\ last' = [rec EXCEPT !.pc = "done", !.out = {out},
                           !.user = {}, !.actor = {}, !.url = {}]

\* ------------------------------------------------------------------ Init
SeedAdmin ==
    [User(1, AdminEmail, get_password_hash("pw123456"))
        EXCEPT !.role = "admin"]

\* History of the registrations that raced for an identity: the requests
\* that began while the identity had no record or while another
\* registration of it was in flight, and how they ended; pwChanged is the
\* time of the latest commit that replaced the password hash of its row.
NoRegs ==
    [started |-> 0, created |-> 0, conflict |-> 0, integrity |-> 0,
     pwChanged |-> 0]

Init ==
    /\ users = {SeedAdmin}
    /\ cache = [k \in Keys |-> {}]
    /\ now = 0
    /\ req = [r \in Slots |-> Idle]
    /\ last = Idle
    /\ sessionToken = {}
    /\ resetToken = {}
    /\ regLog = [e \in Emails |-> NoRegs]
    /\ contacts = {}
    /\ contacts_id_seq = 0

\* -------------------------------------------------------------- register
RegisterInFlight(email) ==
    \E q \in Slots : req[q].op = "register" /\ req[q].email = email

Racing(email) ==
    get_user_by_email(users, email) = {} \/ RegisterInFlight(email)

\* A registration whose existence check also compares the password.
register_samepw(r, email, password) ==
    /\ Free(r)
    /\ Racing(email) => regLog[email].started < MaxRegs
    /\ LET rec == [Idle EXCEPT !.op = "register", !.email = email,
                               !.password = password, !.dbReads = 1]
           n == IF Racing(email) THEN 1 ELSE 0
       IN IF \E u \in get_user_by_email(users, email) :
                 verify_password(password, u.hashed_password)
          THEN /\ Respond(r, rec, HTTPException(409,
                              "User with this email already exists"))
               /\ regLog' = [regLog EXCEPT ![email].started = @ + n,
                                           ![email].conflict = @ + n]
          ELSE /\ Await(r, [rec EXCEPT !.pc = "create_user"])
               /\ regLog' = [regLog EXCEPT ![email].started = @ + n]
    /\ UNCHANGED <<contactVars, users, cache, now, sessionToken, resetToken>>

\* existing_user = await get_user_by_email(db, user.email)
register(r, email, password) ==
    /\ Free(r)
    /\ Racing(email) => regLog[email].started < MaxRegs
    /\ LET rec == [Idle EXCEPT !.op = "register", !.email = email,
                               !.password = password, !.dbReads = 1]
           n == IF Racing(email) THEN 1 ELSE 0
       IN IF get_user_by_email(users, email) # {}
          THEN /\ Respond(r, rec, HTTPException(409,
                              "User with this email already exists"))
               /\ regLog' = [regLog EXCEPT ![email].started = @ + n,
                                           ![email].conflict = @ + n]
          ELSE /\ Await(r, [rec EXCEPT !.pc = "create_user"])
               /\ regLog' = [regLog EXCEPT ![email].started = @ + n]
    /\ UNCHANGED <<contactVars, users, cache, now, sessionToken, resetToken>>

\* create_user that swallows the failed commit and answers 201.
create_user_swallow(r) ==
    /\ req[r].op = "register"
    /\ req[r].pc = "create_user"
    /\ LET rec == [req[r] EXCEPT !.dbWrites = @ + 1]
           db_user == User(NextId(users), rec.email,
                           get_password_hash(rec.password))
       IN /\ Await(r, [rec EXCEPT !.pc = "refresh",
                                  !.user = IF UniqueViolation(users, rec.email)
                                           THEN get_user_by_email(users,
                                                                  rec.email)
                                           ELSE {db_user}])
          /\ regLog' = [regLog EXCEPT ![rec.email].created = @ + 1]
          /\ users' = IF UniqueViolation(users, rec.email)
                      THEN users ELSE users \cup {db_user}
    /\ UNCHANGED <<contactVars, cache, now, sessionToken, resetToken>>

\* create_user: hash, db.add, await db.commit()
create_user(r) ==
    /\ req[r].op = "register"
    /\ req[r].pc = "create_user"
    /\ LET rec == [req[r] EXCEPT !.dbWrites = @ + 1]
           db_user == User(NextId(users), rec.email,
                           get_password_hash(rec.password))
       IN IF UniqueViolation(users, rec.email)
          THEN /\ Respond(r, rec, Unhandled("IntegrityError"))
               /\ regLog' = [regLog EXCEPT ![rec.email].integrity = @ + 1]
               /\ UNCHANGED users
          ELSE /\ Await(r, [rec EXCEPT !.pc = "refresh", !.user = {db_user}])
               /\ regLog' = [regLog EXCEPT ![rec.email].created = @ + 1]
               /\ users' = users \cup {db_user}
    /\ UNCHANGED <<contactVars, cache, now, sessionToken, resetToken>>

\* await db.refresh(db_user); return new_user (201, UserOut)
register_refresh(r) ==
    /\ req[r].op = "register"
    /\ req[r].pc = "refresh"
    /\ \E obj \in req[r].user :
         LET new_user == db_refresh(users, obj)
         IN Respond(r, [req[r] EXCEPT !.dbReads = @ + 1],
                    Response(201, "", {UserOut(new_user)}))
    /\ UNCHANGED <<contactVars, users, cache, now, sessionToken, resetToken, regLog>>

\* ----------------------------------------------------------------- login
\* A login that tells an unknown identity from a wrong password.
login_enumerable(r, email, password) ==
    /\ Free(r)
    /\ LET rec == [Idle EXCEPT !.op = "login", !.email = email,
                               !.password = password, !.dbReads = 1]
           found == get_user_by_email(users, email)
       IN IF found = {}
          THEN Respond(r, rec, HTTPException(404, "User not found"))
          ELSE IF \E user \in found :
                    ~ verify_password(password, user.hashed_password)
          THEN Respond(r, rec, HTTPException(401,
                                   "Incorrect email or password"))
          ELSE \E user \in found :
                 Await(r, [rec EXCEPT
                             !.pc = "store", !.user = {user},
                             !.token = {create_access_token(user.email, now)}])
    /\ UNCHANGED <<contactVars, users, cache, now, sessionToken, resetToken, regLog>>

\* user = await get_user_by_email(db, form_data.username); verify; token
login(r, email, password) ==
    /\ Free(r)
    /\ LET rec == [Idle EXCEPT !.op = "login", !.email = email,
                               !.password = password, !.dbReads = 1]
           found == get_user_by_email(users, email)
       IN IF \/ found = {}
             \/ \E user \in found :
                  ~ verify_password(password, user.hashed_password)
          THEN Respond(r, rec, HTTPException(401,
                                   "Incorrect email or password"))
          ELSE \E user \in found :
                 Await(r, [rec EXCEPT
                             !.pc = "store", !.user = {user},
                             !.token = {create_access_token(user.email, now)}])
    /\ UNCHANGED <<contactVars, users, cache, now, sessionToken, resetToken, regLog>>

\* await store_in_redis(redis, user); return the token
login_store(r) ==
    /\ req[r].op = "login"
    /\ req[r].pc = "store"
    /\ \E user \in req[r].user, access_token \in req[r].token :
         /\ cache' = store_in_redis(cache, user, now)
         /\ sessionToken' = {access_token}
         /\ Respond(r, [req[r] EXCEPT !.cacheWrites = @ + 1],
                    Response(200, "", {[access_token |-> access_token,
                                        token_type |-> "bearer"]}))
    /\ UNCHANGED <<contactVars, users, now, resetToken, regLog>>

\* --------------------------------------------------------- read_users_me
read_users_me(r, token) ==
    /\ Free(r)
    /\ LET rec == [Idle EXCEPT !.op = "read_users_me", !.token = {token}]
           payload == decode_access_token(token, now)
       IN IF payload = {} \/ \E pl \in payload : pl.sub = {}
          THEN Respond(r, rec, HTTPException(401, "Invalid token"))
          ELSE \E pl \in payload : \E email \in pl.sub :
                 LET user == get_user_by_email_from_redis(cache, email, now)
                     rec2 == [rec EXCEPT !.email = email, !.cacheReads = 1]
                 IN IF user = {}
                    THEN Respond(r, rec2,
                                 HTTPException(404, "User not found"))
                    ELSE \E u \in user :
                           Respond(r, rec2, Response(200, "", {UserOut(u)}))
    /\ UNCHANGED <<contactVars, users, cache, now, sessionToken, resetToken, regLog>>

\* --------------------------------------------------------- update_avatar
\* decode the token; userLoggedIn = await get_user_by_email_from_redis(...)
\* target is the optional email parameter.
update_avatar(r, token, target) ==
    /\ Free(r)
    /\ LET rec == [Idle EXCEPT !.op = "update_avatar", !.token = {token}]
           payload == decode_access_token(token, now)
       IN IF payload = {} \/ \E pl \in payload : pl.sub = {}
          THEN Respond(r, rec, HTTPException(401, "Invalid token"))
          ELSE \E pl \in payload : \E emailSub \in pl.sub :
                 LET user_email == IF target # {}
                                   THEN CHOOSE e \in target : TRUE
                                   ELSE emailSub
                 IN Await(r, [rec EXCEPT
                                !.pc = "get_user", !.email = user_email,
                                !.cacheReads = 1,
                                !.actor = get_user_by_email_from_redis(
                                              cache, emailSub, now)])
    /\ UNCHANGED <<contactVars, users, cache, now, sessionToken, resetToken, regLog>>

\* The same without the try/except around the upload.
avatar_get_user_nocatch(r, upload) ==
    /\ req[r].op = "update_avatar"
    /\ req[r].pc = "get_user"
    /\ LET user == get_user_by_email(users, req[r].email)
           rec == [req[r] EXCEPT !.dbReads = @ + 1, !.user = user]
       IN IF user = {}
          THEN Respond(r, rec, HTTPException(404, "User not found"))
          ELSE IF rec.actor = {}
          THEN Respond(r, rec, Unhandled("AttributeError"))
          ELSE IF \E userLoggedIn \in rec.actor : userLoggedIn.role # "admin"
          THEN Respond(r, rec, HTTPException(403,
                              "Only admins are allowed to update avatar"))
          ELSE IF upload = {}
          THEN Respond(r, [rec EXCEPT !.upload = "failed"],
                       Unhandled("Exception"))
          ELSE Await(r, [rec EXCEPT !.pc = "commit", !.url = upload,
                                    !.upload = "ok"])
    /\ UNCHANGED <<contactVars, users, cache, now, sessionToken, resetToken, regLog>>

\* user = await get_user_by_email(db, user_email); the checks; the upload,
\* which returns a secure_url (upload in Urls) or raises (upload = {}).
avatar_get_user(r, upload) ==
    /\ req[r].op = "update_avatar"
    /\ req[r].pc = "get_user"
    /\ LET user == get_user_by_email(users, req[r].email)
           rec == [req[r] EXCEPT !.dbReads = @ + 1, !.user = user]
       IN IF user = {}
          THEN Respond(r, rec, HTTPException(404, "User not found"))
          ELSE IF rec.actor = {}
          THEN Respond(r, rec, Unhandled("AttributeError"))
          ELSE IF \E userLoggedIn \in rec.actor : userLoggedIn.role # "admin"
          THEN Respond(r, rec, HTTPException(403,
                              "Only admins are allowed to update avatar"))
          ELSE IF upload = {}
          THEN Respond(r, [rec EXCEPT !.upload = "failed"],
                       HTTPException(500,
                              "Avatar upload failed: Upload error"))
          ELSE Await(r, [rec EXCEPT !.pc = "commit", !.url = upload,
                                    !.upload = "ok"])
    /\ UNCHANGED <<contactVars, users, cache, now, sessionToken, resetToken, regLog>>

\* The assignment without the commit: nothing reaches the table.
avatar_commit_nowrite(r) ==
    /\ req[r].op = "update_avatar"
    /\ req[r].pc = "commit"
    /\ \E user \in req[r].user :
         Await(r, [req[r] EXCEPT
                     !.pc = "refresh", !.dbWrites = @ + 1,
                     !.user = {[user EXCEPT !.avatar_url = req[r].url]}])
    /\ UNCHANGED <<contactVars, users, cache, now, sessionToken, resetToken, regLog>>

\* user.avatar_url = result.get("secure_url"); await db.commit()
\* The unit of work emits UPDATE ... SET avatar_url only when the attribute
\* differs from the loaded value.
avatar_commit(r) ==
    /\ req[r].op = "update_avatar"
    /\ req[r].pc = "commit"
    /\ \E user \in req[r].user :
         /\ users' = IF user.avatar_url = req[r].url
                     THEN users
                     ELSE {IF u.id = user.id
                           THEN [u EXCEPT !.avatar_url = req[r].url]
                           ELSE u : u \in users}
         /\ Await(r, [req[r] EXCEPT
                        !.pc = "refresh", !.dbWrites = @ + 1,
                        !.user = {[user EXCEPT !.avatar_url = req[r].url]}])
    /\ UNCHANGED <<contactVars, cache, now, sessionToken, resetToken, regLog>>

\* No refresh: the object keeps what the request loaded and assigned.
avatar_refresh_skip(r) ==
    /\ req[r].op = "update_avatar"
    /\ req[r].pc = "refresh"
    /\ Await(r, [req[r] EXCEPT !.pc = "store", !.dbReads = @ + 1])
    /\ UNCHANGED <<contactVars, users, cache, now, sessionToken, resetToken, regLog>>

\* await db.refresh(user)
avatar_refresh(r) ==
    /\ req[r].op = "update_avatar"
    /\ req[r].pc = "refresh"
    /\ \E user \in req[r].user :
         Await(r, [req[r] EXCEPT !.pc = "store", !.dbReads = @ + 1,
                                 !.user = {db_refresh(users, user)}])
    /\ UNCHANGED <<contactVars, users, cache, now, sessionToken, resetToken, regLog>>

\* await store_in_redis(redis, user); return user
avatar_store(r) ==
    /\ req[r].op = "update_avatar"
    /\ req[r].pc = "store"
    /\ \E user \in req[r].user :
         /\ cache' = store_in_redis(cache, user, now)
         /\ Respond(r, [req[r] EXCEPT !.cacheWrites = @ + 1],
                    Response(200, "", {UserOut(user)}))
    /\ UNCHANGED <<contactVars, users, now, sessionToken, resetToken, regLog>>

\* ------------------------------------------------ request_password_reset
GenericResetMessage == "If the email exists, a reset link has been sent."

\* A handler that tells the caller that the identity is unknown.
request_password_reset_404(r, email) ==
    /\ Free(r)
    /\ LET rec == [Idle EXCEPT !.op = "request_password_reset",
                               !.email = email, !.dbReads = 1]
           user == get_user_by_email(users, email)
       IN IF user = {}
          THEN /\ Respond(r, rec, HTTPException(404, "User not found"))
               /\ UNCHANGED resetToken
          ELSE /\ resetToken' = {generate_reset_token(email, now)}
               /\ Respond(r, rec, Message(GenericResetMessage))
    /\ UNCHANGED <<contactVars, users, cache, now, sessionToken, regLog>>

\* A handler that issues a link whether the identity is known or not.
request_password_reset_always(r, email) ==
    /\ Free(r)
    /\ LET rec == [Idle EXCEPT !.op = "request_password_reset",
                               !.email = email, !.dbReads = 1]
       IN /\ resetToken' = {generate_reset_token(email, now)}
          /\ Respond(r, rec, Message(GenericResetMessage))
    /\ UNCHANGED <<contactVars, users, cache, now, sessionToken, regLog>>

request_password_reset(r, email) ==
    /\ Free(r)
    /\ LET rec == [Idle EXCEPT !.op = "request_password_reset",
                               !.email = email, !.dbReads = 1]
           user == get_user_by_email(users, email)
       IN IF user = {}
          THEN /\ Respond(r, rec, Message(GenericResetMessage))
               /\ UNCHANGED resetToken
          ELSE /\ resetToken' = {generate_reset_token(email, now)}
               /\ Respond(r, rec, Message(GenericResetMessage))
    /\ UNCHANGED <<contactVars, users, cache, now, sessionToken, regLog>>

\* -------------------------------------------------------- reset_password
\* email = verify_reset_token(reset.token); update_user_password: select
reset_password(r, token, new_password) ==
    /\ Free(r)
    /\ LET rec == [Idle EXCEPT !.op = "reset_password", !.token = {token},
                               !.password = new_password]
           checked == verify_reset_token(token, now)
       IN IF ~ checked.ok
          THEN Respond(r, rec, HTTPException(400, checked.detail))
          ELSE \E email \in checked.email :
                 LET user == get_user_by_email(users, email)
                     rec2 == [rec EXCEPT !.email = email, !.dbReads = 1,
                                         !.user = user]
                 IN IF user = {}
                    THEN Respond(r, rec2,
                                 HTTPException(404, "User not found"))
                    ELSE Await(r, [rec2 EXCEPT !.pc = "commit"])
    /\ UNCHANGED <<contactVars, users, cache, now, sessionToken, resetToken, regLog>>

\* A rewrite that stores the new password as it came.
update_user_password_plain(r) ==
    /\ req[r].op = "reset_password"
    /\ req[r].pc = "commit"
    /\ \E user \in req[r].user :
         LET hashed == [scheme |-> "plaintext",
                        digest |-> <<"", req[r].password>>]
         IN /\ users' = {IF u.id = user.id
                         THEN [u EXCEPT !.hashed_password = hashed]
                         ELSE u : u \in users}
            /\ regLog' = IF user.hashed_password = hashed
                         THEN regLog
                         ELSE [regLog EXCEPT ![user.email].pwChanged = now]
            /\ Await(r, [req[r] EXCEPT
                           !.pc = "refresh", !.dbWrites = @ + 1,
                           !.user = {[user EXCEPT
                                        !.hashed_password = hashed]}])
    /\ UNCHANGED <<contactVars, cache, now, sessionToken, resetToken>>

\* A rewrite that also drops the cache entry of the identity.
update_user_password_drop(r) ==
    /\ req[r].op = "reset_password"
    /\ req[r].pc = "commit"
    /\ \E user \in req[r].user :
         LET hashed == get_password_hash(req[r].password)
         IN /\ users' = {IF u.id = user.id
                         THEN [u EXCEPT !.hashed_password = hashed]
                         ELSE u : u \in users}
            /\ cache' = [cache EXCEPT ![UserKey(user.email)] = {}]
            /\ regLog' = IF user.hashed_password = hashed
                         THEN regLog
                         ELSE [regLog EXCEPT ![user.email].pwChanged = now]
            /\ Await(r, [req[r] EXCEPT
                           !.pc = "refresh", !.dbWrites = @ + 1,
                           !.user = {[user EXCEPT
                                        !.hashed_password = hashed]}])
    /\ UNCHANGED <<contactVars, now, sessionToken, resetToken>>

\* user.hashed_password = get_password_hash(new_password); await db.commit()
update_user_password(r) ==
    /\ req[r].op = "reset_password"
    /\ req[r].pc = "commit"
    /\ \E user \in req[r].user :
         LET hashed == get_password_hash(req[r].password)
         IN /\ users' = {IF u.id = user.id
                         THEN [u EXCEPT !.hashed_password = hashed]
                         ELSE u : u \in users}
            /\ regLog' = IF user.hashed_password = hashed
                         THEN regLog
                         ELSE [regLog EXCEPT ![user.email].pwChanged = now]
            /\ Await(r, [req[r] EXCEPT
                           !.pc = "refresh", !.dbWrites = @ + 1,
                           !.user = {[user EXCEPT
                                        !.hashed_password = hashed]}])
    /\ UNCHANGED <<contactVars, cache, now, sessionToken, resetToken>>

\* A refresh followed by a second lookup of the row by its email.
reset_refresh_reselect(r) ==
    /\ req[r].op = "reset_password"
    /\ req[r].pc = "refresh"
    /\ Respond(r, [req[r] EXCEPT !.dbReads = @ + 2],
               Message("Password has been reset successfully."))
    /\ UNCHANGED <<contactVars, users, cache, now, sessionToken, resetToken,
                   regLog>>

\* await db.refresh(user); return the success message
reset_refresh(r) ==
    /\ req[r].op = "reset_password"
    /\ req[r].pc = "refresh"
    /\ Respond(r, [req[r] EXCEPT !.dbReads = @ + 1],
               Message("Password has been reset successfully."))
    /\ UNCHANGED <<contactVars, users, cache, now, sessionToken, resetToken, regLog>>

\* ------------------------------------------------- tokens a client sends
\* The tokens the handlers can be given: the ones issued, the same with a
\* byte flipped, and a token signed with the key but without a sub claim.
BearerTokens ==
    sessionToken \cup resetToken
       \cup {Tamper(t) : t \in sessionToken}
       \cup {Jwt({}, now + ACCESS_TOKEN_EXPIRE_MINUTES * 60, SECRET_KEY)}

ResetLinks ==
    resetToken \cup sessionToken \cup {Tamper(t) : t \in resetToken}

\* The email parameter of update_avatar: absent, a registrable identity, or
\* one that never registers.
Targets == {{}} \cup {{e} : e \in Emails \cup {"nobody@x.com"}}

Uploads == {{}} \cup {{u} : u \in Urls}

\* ------------------------------------------------------------ environment
\* Redis is volatile: a restart or an eviction loses a key.
Evict(key) ==
    /\ cache[key] # {}
    /\ cache' = [cache EXCEPT ![key] = {}]
    /\ last' = Idle
    /\ UNCHANGED <<contactVars, users, now, req, sessionToken, resetToken, regLog>>

\* Time passes; Redis drops the expired keys.
Advance(ticks) ==
    /\ now + TickSeconds <= ticks * TickSeconds
    /\ now' = now + TickSeconds
    /\ cache' = redis_expire(cache, now')
    /\ last' = Idle
    /\ UNCHANGED <<contactVars, users, req, sessionToken, resetToken, regLog>>

Tick == Advance(MaxTicks)

\* ------------------------------------------------------- specifications
RegisterPassword == "pw123456"
NewPassword == "pw654321"
OneUrl == {"https://res.cloudinary.com/1.jpg"}

\* All six handlers, two requests in flight, every interleaving of their
\* awaits; one password at registration, one upload result, no clock.
Next ==
    \/ \E r \in Slots, e \in Emails : register(r, e, RegisterPassword)
    \/ \E r \in Slots : create_user(r)
    \/ \E r \in Slots : register_refresh(r)
    \/ \E r \in Slots, e \in Emails : login(r, e, RegisterPassword)
    \/ \E r \in Slots : login_store(r)
    \/ \E r \in Slots, t \in BearerTokens : read_users_me(r, t)
    \/ \E r \in Slots, t \in BearerTokens, e \in Targets :
         update_avatar(r, t, e)
    \/ \E r \in Slots, up \in {{}, OneUrl} : avatar_get_user(r, up)
    \/ \E r \in Slots : avatar_commit(r)
    \/ \E r \in Slots : avatar_refresh(r)
    \/ \E r \in Slots : avatar_store(r)
    \/ \E r \in Slots, e \in Emails : request_password_reset(r, e)
    \/ \E r \in Slots, t \in ResetLinks :
         reset_password(r, t, RegisterPassword)
    \/ \E r \in Slots : update_user_password(r)
    \/ \E r \in Slots : reset_refresh(r)

Spec == Init /\ [][Next]_vars

\* Registration, login and password reset with two passwords, two requests
\* in flight.
NextLogin ==
    \/ \E r \in Slots, e \in Emails, p \in Passwords : register(r, e, p)
    \/ \E r \in Slots : create_user(r)
    \/ \E r \in Slots : register_refresh(r)
    \/ \E r \in Slots, e \in Emails, p \in Passwords : login(r, e, p)
    \/ \E r \in Slots : login_store(r)
    \/ \E r \in Slots, e \in Emails : request_password_reset(r, e)
    \/ \E r \in Slots, t \in ResetLinks, p \in Passwords :
         reset_password(r, t, p)
    \/ \E r \in Slots : update_user_password(r)
    \/ \E r \in Slots : reset_refresh(r)

SpecLogin == Init /\ [][NextLogin]_vars

Quiet == \A r \in Slots : ~ InFlight(r)

\* One request at a time, with the loss of cache keys and with the clock,
\* which ticks between requests: registration, login, profile read, avatar
\* update and the request of a reset link.
NextSeq ==
    \/ \E r \in Slots, e \in Emails :
         Alone(r) /\ register(r, e, RegisterPassword)
    \/ \E r \in Slots : create_user(r)
    \/ \E r \in Slots : register_refresh(r)
    \/ \E r \in Slots, e \in Emails, p \in Passwords :
         Alone(r) /\ login(r, e, p)
    \/ \E r \in Slots : login_store(r)
    \/ \E r \in Slots, t \in BearerTokens : Alone(r) /\ read_users_me(r, t)
    \/ \E r \in Slots, t \in BearerTokens, e \in Targets :
         Alone(r) /\ update_avatar(r, t, e)
    \/ \E r \in Slots, up \in Uploads : avatar_get_user(r, up)
    \/ \E r \in Slots : avatar_commit(r)
    \/ \E r \in Slots : avatar_refresh(r)
    \/ \E r \in Slots : avatar_store(r)
    \/ \E r \in Slots, e \in Emails :
         Alone(r) /\ request_password_reset(r, e)
    \/ \E k \in Keys : Evict(k)
    \/ Quiet /\ Tick

SpecSeq == Init /\ [][NextSeq]_vars

\* Passwords longer than bcrypt reads, alike in their first 72 bytes.
LongPassword ==
    "aaaaaaaaaaaaaaaaaaaaaaaaaaaaaaaaaaaaaaaaaaaaaaaaaaaaaaaaaaaaaaaaaaaaaaaa1"

LongPasswords ==
    {LongPassword,
     "aaaaaaaaaaaaaaaaaaaaaaaaaaaaaaaaaaaaaaaaaaaaaaaaaaaaaaaaaaaaaaaaaaaaaaaa2"}

\* Login, profile read and password reset of the seeded account, one
\* request at a time, with passwords longer than bcrypt reads; the clock
\* ticks between requests, far enough for a reset token to expire.
NextReset ==
    \/ \E r \in Slots, e \in Emails,
          p \in {RegisterPassword} \cup LongPasswords :
         Alone(r) /\ login(r, e, p)
    \/ \E r \in Slots : login_store(r)
    \/ \E r \in Slots, t \in BearerTokens : Alone(r) /\ read_users_me(r, t)
    \/ \E r \in Slots, e \in Emails :
         Alone(r) /\ request_password_reset(r, e)
    \/ \E r \in Slots, t \in ResetLinks, p \in {NewPassword, LongPassword} :
         Alone(r) /\ reset_password(r, t, p)
    \/ \E r \in Slots : update_user_password(r)
    \/ \E r \in Slots : reset_refresh(r)
    \/ Quiet /\ Advance(MaxResetTicks)

SpecReset == Init /\ [][NextReset]_vars

\* Logins, avatar updates and password resets of the seeded account that
\* overlap, with the clock, which ticks at any moment, requests in flight
\* or not.
NextStale ==
    \/ \E r \in Slots : login(r, AdminEmail, RegisterPassword)
    \/ \E r \in Slots : login_store(r)
    \/ \E r \in Slots, t \in sessionToken : update_avatar(r, t, {})
    \/ \E r \in Slots : avatar_get_user(r, OneUrl)
    \/ \E r \in Slots : avatar_commit(r)
    \/ \E r \in Slots : avatar_refresh(r)
    \/ \E r \in Slots : avatar_store(r)
    \/ \E r \in Slots : request_password_reset(r, AdminEmail)
    \/ \E r \in Slots, t \in resetToken :
         reset_password(r, t, NewPassword)
    \/ \E r \in Slots : update_user_password(r)
    \/ \E r \in Slots : reset_refresh(r)
    \/ Advance(MaxResetTicks)

SpecStale == Init /\ [][NextStale]_vars

\* All six handlers, one request at a time, with the clock and a cache that
\* loses entries by expiry only.
NextCache ==
    \/ \E r \in Slots, e \in Emails :
         Alone(r) /\ register(r, e, RegisterPassword)
    \/ \E r \in Slots : create_user(r)
    \/ \E r \in Slots : register_refresh(r)
    \/ \E r \in Slots, e \in Emails :
         Alone(r) /\ login(r, e, RegisterPassword)
    \/ \E r \in Slots : login_store(r)
    \/ \E r \in Slots, t \in BearerTokens : Alone(r) /\ read_users_me(r, t)
    \/ \E r \in Slots, t \in BearerTokens, e \in Targets :
         Alone(r) /\ update_avatar(r, t, e)
    \/ \E r \in Slots, up \in {{}, OneUrl} : avatar_get_user(r, up)
    \/ \E r \in Slots : avatar_commit(r)
    \/ \E r \in Slots : avatar_refresh(r)
    \/ \E r \in Slots : avatar_store(r)
    \/ \E r \in Slots, e \in Emails :
         Alone(r) /\ request_password_reset(r, e)
    \/ \E r \in Slots, t \in ResetLinks :
         Alone(r) /\ reset_password(r, t, NewPassword)
    \/ \E r \in Slots : update_user_password(r)
    \/ \E r \in Slots : reset_refresh(r)
    \/ Quiet /\ Tick

SpecCache == Init /\ [][NextCache]_vars

\* The Credential Hasher alone: a password is hashed, then an attempt is
\* verified against the hash.  The inputs are passwords the register
\* schema admits (min_length 8, no maximum): short ones and ones of 72
\* bytes and more.
HasherInputs ==
    Passwords \cup LongPasswords
       \cup {SubSeq(LongPassword, 1, truncate_size),
             SubSeq(LongPassword, 1, truncate_size - 1) \o "b",
             "pw12345678"}

InitHash ==
    /\ users = {}
    /\ cache = [k \in Keys |-> {}]
    /\ now = 0
    /\ req = [r \in Slots |-> Idle]
    /\ \E p \in HasherInputs, q \in HasherInputs :
          last = [op |-> "hasher", pc |-> "input", password |-> p,
                  attempt |-> q, hashed |-> {}, verified |-> {}]
    /\ sessionToken = {}
    /\ resetToken = {}
    /\ regLog = [e \in Emails |-> NoRegs]
    /\ contacts = {}
    /\ contacts_id_seq = 0

HashStep ==
    /\ last.pc = "input"
    /\ last' = [last EXCEPT !.pc = "hashed",
                            !.hashed = {get_password_hash(last.password)}]
    /\ UNCHANGED <<contactVars, users, cache, now, req, sessionToken, resetToken, regLog>>

VerifyStep ==
    /\ last.pc = "hashed"
    /\ \E h \in last.hashed :
          last' = [last EXCEPT !.pc = "verified",
                               !.verified =
                                   {verify_password(last.attempt, h)}]
    /\ UNCHANGED <<contactVars, users, cache, now, req, sessionToken, resetToken, regLog>>

NextHash == HashStep \/ VerifyStep

SpecHash == InitHash /\ [][NextHash]_vars

\* --------------------------------------------------------------- contacts
\* The contacts API of app/routes/routes.py over the contacts table
\* (app/models/models.py).  A date is its day number counted from
\* 1 January 1970 and a year has DaysPerYear days (leap days are left
\* out): two dates are the same day of the year when they differ by whole
\* years.  Dates compare as their day numbers do.
MaxContacts == 3

SecondsPerDay == 86400
DaysPerYear == 365
BirthdayWindowDays == 7

\* datetime.today().date()
date(seconds) == seconds \div SecondsPerDay

DayOfYear(day) == day % DaysPerYear

\* Two days the requests are made on: one in the middle of a year, one
\* whose window of BirthdayWindowDays days runs into the next year.
MidYear == 56 * DaysPerYear + 100
YearEnd == 56 * DaysPerYear + 362
Todays == {MidYear, YearEnd}

\* Dates of birth: three days after MidYear, the same day of the year
\* thirty years earlier, a day of the year far from both windows, and the
\* third day of a year thirty years back.
Birthdays ==
    {MidYear + 3, MidYear + 3 - 30 * DaysPerYear,
     26 * DaysPerYear + 200, 26 * DaysPerYear + 2}

ContactEmails == {"c1@x.com", "c2@x.com"}

ContactIds == 1 .. MaxContacts

\* Bodies of POST /contacts/ (ContactCreate): additional_data is left out.
ContactCreates ==
    {[first_name |-> "Ann", last_name |-> "Lee", email |-> e,
      phone |-> "111", birthday |-> b, additional_data |-> {}] :
        e \in ContactEmails, b \in {MidYear + 3 - 30 * DaysPerYear,
                                    26 * DaysPerYear + 200}}

\* Bodies of PUT /contacts/{contact_id} (ContactUpdate): the fields the
\* client has set, from none of them to several.
ContactUpdates ==
    {[f \in {} |-> ""],
     [first_name |-> "Bob"],
     [email |-> "c2@x.com"],
     [birthday |-> MidYear + 3, additional_data |-> {"note"}],
     [birthday |-> 26 * DaysPerYear + 2]}

\* A row of the contacts table.
Contact(id, contact) ==
    [id |-> id, first_name |-> contact.first_name,
     last_name |-> contact.last_name, email |-> contact.email,
     phone |-> contact.phone, birthday |-> contact.birthday,
     additional_data |-> contact.additional_data]

\* select(Contact).where(Contact.id == contact_id), .first(): None or the row.
get_contact_any(table, contact_id) ==
    IF table = {} THEN {} ELSE {CHOOSE c \in table : TRUE}

get_contact(table, contact_id) == {c \in table : c.id = contact_id}

\* model_dump(exclude_unset=True) and setattr: the value of a field after
\* the fields the client has set are assigned.
\* model_dump() without exclude_unset: additional_data, when the client has
\* not set it, is assigned its default, None.
setattr_dump_all(db_contact, contact_update, var) ==
    IF var \in DOMAIN contact_update
    THEN contact_update[var]
    ELSE IF var = "additional_data" THEN {} ELSE db_contact[var]

setattr(db_contact, contact_update, var) ==
    IF var \in DOMAIN contact_update
    THEN contact_update[var]
    ELSE db_contact[var]

\* The row after an UPDATE of the columns dirty to the values of set.
Updated(row, set, dirty) ==
    [f \in DOMAIN row |-> IF f \in dirty THEN set[f] ELSE row[f]]

\* The columns of contacts.email are unique.
ContactEmailTaken(table, contact_id, email) ==
    \E c \in table : c.id # contact_id /\ c.email = email

\* The query of get_contacts_with_upcoming_birthdays.
get_contacts_with_upcoming_birthdays(table, seconds) ==
    LET today == date(seconds)
        upcoming == today + BirthdayWindowDays
    IN  {c \in table : c.birthday >= today /\ c.birthday <= upcoming}

\* A request of the contacts API in flight: its path parameter, its body
\* and the object its session has loaded.
ContactRequest(op, contact_id, contact) ==
    [op |-> op, pc |-> "begin", contact_id |-> contact_id,
     contact |-> contact, db_contact |-> {}, out |-> {}]

Return(r, rec, out) ==
    /\ req' = [req EXCEPT ![r] = Idle]
    /\ last' = [rec EXCEPT !.pc = "done", !.out = {out}]

\* POST /contacts/: the INSERT of the commit draws the next id from the
\* sequence, which a failed INSERT does not give back.
create_contact(r, contact) ==
    /\ Free(r)
    /\ contacts_id_seq < MaxContacts
    /\ contacts_id_seq' = contacts_id_seq + 1
    /\ LET id  == contacts_id_seq + 1
           rec == ContactRequest("create_contact", id, {contact})
       IN  IF ContactEmailTaken(contacts, id, contact.email)
           THEN /\ contacts' = contacts
                /\ Return(r, rec, Unhandled("IntegrityError"))
           ELSE /\ contacts' = contacts \cup {Contact(id, contact)}
                /\ Await(r, [rec EXCEPT !.pc = "refresh",
                                        !.db_contact =
                                            {Contact(id, contact)}])
    /\ UNCHANGED authVars

\* await db.refresh(db_contact) of create_contact.
create_contact_refresh(r) ==
    /\ req[r].op = "create_contact"
    /\ req[r].pc = "refresh"
    /\ LET found == get_contact(contacts, req[r].contact_id)
       IN  IF found = {}
           THEN Return(r, req[r], Unhandled("InvalidRequestError"))
           ELSE Return(r, req[r], Response(200, "", found))
    /\ UNCHANGED <<contactVars,  authVars>>

\* GET /contacts/{contact_id}.
read_contact(r, contact_id) ==
    /\ Free(r)
    /\ LET rec   == ContactRequest("read_contact", contact_id, {})
           found == get_contact(contacts, contact_id)
       IN  IF found = {}
           THEN Return(r, rec, HTTPException(404, "Contact not found"))
           ELSE Return(r, [rec EXCEPT !.db_contact = found],
                       Response(200, "", found))
    /\ UNCHANGED <<contactVars,  authVars>>

\* PUT /contacts/{contact_id}: crud.update_contact up to its commit.
update_contact(r, contact_id, contact_update) ==
    /\ Free(r)
    /\ LET rec   == ContactRequest("update_contact", contact_id,
                                   {contact_update})
           found == get_contact(contacts, contact_id)
       IN  IF found = {}
           THEN Return(r, rec, HTTPException(404, "Contact not found"))
           ELSE Await(r, [rec EXCEPT !.pc = "commit",
                                     !.db_contact = found])
    /\ UNCHANGED <<contactVars,  authVars>>

\* await db.commit() of update_contact: the UPDATE carries the attributes
\* whose value differs from the loaded one, and none is sent when there is
\* none; it fails when the row is gone and when the email is taken.
update_contact_commit(r) ==
    /\ req[r].op = "update_contact"
    /\ req[r].pc = "commit"
    /\ LET rec     == req[r]
           loaded  == CHOOSE c \in rec.db_contact : TRUE
           payload == CHOOSE p \in rec.contact : TRUE
           current == get_contact(contacts, rec.contact_id)
           set     == [id |-> loaded.id,
                       first_name |-> setattr(loaded, payload, "first_name"),
                       last_name |-> setattr(loaded, payload, "last_name"),
                       email |-> setattr(loaded, payload, "email"),
                       phone |-> setattr(loaded, payload, "phone"),
                       birthday |-> setattr(loaded, payload, "birthday"),
                       additional_data |->
                           setattr(loaded, payload, "additional_data")]
           dirty   == {f \in DOMAIN loaded : set[f] # loaded[f]}
       IN  IF dirty = {}
           THEN /\ contacts' = contacts
                /\ Await(r, [rec EXCEPT !.pc = "refresh"])
           ELSE IF current = {}
           THEN /\ contacts' = contacts
                /\ Return(r, rec, Unhandled("StaleDataError"))
           ELSE IF /\ "email" \in dirty
                   /\ ContactEmailTaken(contacts, rec.contact_id,
                                        payload.email)
           THEN /\ contacts' = contacts
                /\ Return(r, rec, Unhandled("IntegrityError"))
           ELSE /\ contacts' =
                       (contacts \ current)
                          \cup {Updated(c, set, dirty) : c \in current}
                /\ Await(r, [rec EXCEPT !.pc = "refresh",
                                        !.db_contact = {set}])
    /\ UNCHANGED <<contacts_id_seq, authVars>>

\* await db.refresh(db_contact) of update_contact.
update_contact_refresh(r) ==
    /\ req[r].op = "update_contact"
    /\ req[r].pc = "refresh"
    /\ LET found == get_contact(contacts, req[r].contact_id)
       IN  IF found = {}
           THEN Return(r, req[r], Unhandled("InvalidRequestError"))
           ELSE Return(r, [req[r] EXCEPT !.db_contact = found],
                       Response(200, "", found))
    /\ UNCHANGED <<contactVars,  authVars>>

\* DELETE /contacts/{contact_id}: crud.delete_contact up to its commit.
delete_contact(r, contact_id) ==
    /\ Free(r)
    /\ LET rec   == ContactRequest("delete_contact", contact_id, {})
           found == get_contact(contacts, contact_id)
       IN  IF found = {}
           THEN Return(r, rec, HTTPException(404, "Contact not found"))
           ELSE Await(r, [rec EXCEPT !.pc = "commit",
                                     !.db_contact = found])
    /\ UNCHANGED <<contactVars,  authVars>>

\* await db.delete(db_contact), await db.commit(): the DELETE of the row
\* with the loaded id; the loaded object is returned.
delete_contact_commit(r) ==
    /\ req[r].op = "delete_contact"
    /\ req[r].pc = "commit"
    /\ contacts' = contacts \ get_contact(contacts, req[r].contact_id)
    /\ Return(r, req[r], Response(200, "", req[r].db_contact))
    /\ UNCHANGED <<contacts_id_seq, authVars>>

\* GET /contacts/birthdays/upcoming.
upcoming_birthdays(r) ==
    /\ Free(r)
    /\ Return(r, ContactRequest("upcoming_birthdays", 0, {}),
              Response(200, "",
                       get_contacts_with_upcoming_birthdays(contacts, now)))
    /\ UNCHANGED <<contactVars,  authVars>>

\* The contacts API, one request at a time, on an empty table, on one of
\* the days of Todays.
InitContacts ==
    /\ users = {SeedAdmin}
    /\ cache = [k \in Keys |-> {}]
    /\ now \in {d * SecondsPerDay : d \in Todays}
    /\ req = [r \in Slots |-> Idle]
    /\ last = Idle
    /\ sessionToken = {}
    /\ resetToken = {}
    /\ regLog = [e \in Emails |-> NoRegs]
    /\ contacts = {}
    /\ contacts_id_seq = 0

NextContacts ==
    \/ \E r \in Slots, c \in ContactCreates :
         Alone(r) /\ create_contact(r, c)
    \/ \E r \in Slots : create_contact_refresh(r)
    \/ \E r \in Slots, i \in ContactIds : Alone(r) /\ read_contact(r, i)
    \/ \E r \in Slots, i \in ContactIds, u \in ContactUpdates :
         Alone(r) /\ update_contact(r, i, u)
    \/ \E r \in Slots : update_contact_commit(r)
    \/ \E r \in Slots : update_contact_refresh(r)
    \/ \E r \in Slots, i \in ContactIds : Alone(r) /\ delete_contact(r, i)
    \/ \E r \in Slots : delete_contact_commit(r)
    \/ \E r \in Slots : upcoming_birthdays(r)

SpecContacts == InitContacts /\ [][NextContacts]_vars

\* ================================================================ claims
Registered(email) == get_user_by_email(users, email) # {}

Record(email) == CHOOSE u \in users : u.email = email

\* The step starts a request of the handler op that goes on to an await.
Starts(op, r) == ~ InFlight(r) /\ req'[r].op = op

\* The step sends the response of a request of the handler op.
Responds(op) == last'.op = op /\ last'.pc = "done"

Conflict409 == HTTPException(409, "User with this email already exists")

\* C1: a registration of an identity that has a row is answered 409,
\* whatever password it carries, and changes neither the users table nor
\* the cache.
C1_RegisterConflict ==
    [][\A e \in Emails :
         Registered(e) =>
            /\ \A r \in Slots : ~ (Starts("register", r) /\ req'[r].email = e)
            /\ (Responds("register") /\ last'.email = e
                   /\ last'.dbWrites = 0) =>
                  /\ last'.out = {Conflict409}
                  /\ users' = users
                  /\ cache' = cache]_vars

\* A second registration of a@x.com with another password than the one of
\* its row has been answered 409.
C1_Witness ==
    /\ last.op = "register"
    /\ last.email = "a@x.com"
    /\ last.out = {Conflict409}
    /\ ~ verify_password(last.password, Record("a@x.com").hashed_password)

\* C2: in every reachable state, whatever the interleaving of the six
\* handlers, no two rows of the users table have the same email.
C2_UniqueIdentity ==
    \A u \in users, v \in users : u.email = v.email => u = v

\* A second INSERT of the same email has been attempted and refused, and
\* rows have been updated since by a password reset and an avatar update.
C2_Witness ==
    /\ regLog["a@x.com"].integrity = 1
    /\ Cardinality(users) = 2
    /\ \E u \in users : u.avatar_url # {}
    /\ last.op = "reset_password"
    /\ \E o \in last.out : o.status = 200

RaceOver(email) ==
    /\ regLog[email].started = 2
    /\ ~ RegisterInFlight(email)

\* C3 as stated: of two overlapping registrations of an unregistered
\* identity one succeeds and the other is refused by the unique
\* constraint, whatever the interleaving.
C3_AsStated ==
    \A e \in Emails :
        RaceOver(e) =>
            /\ regLog[e].created = 1
            /\ regLog[e].integrity = 1
            /\ Cardinality(get_user_by_email(users, e)) = 1

\* C3 amended: one of the two succeeds and the other is refused, by the
\* existence check (409) when it runs after the winner's commit, by the
\* unique constraint (an unhandled IntegrityError) otherwise; one row for
\* the identity exists afterwards.
C3_RaceOneWinner ==
    \A e \in Emails :
        RaceOver(e) =>
            /\ regLog[e].created = 1
            /\ regLog[e].conflict + regLog[e].integrity = 1
            /\ Cardinality(get_user_by_email(users, e)) = 1

\* Both requests passed the existence check before either committed.
C3_Witness ==
    /\ RaceOver("a@x.com")
    /\ regLog["a@x.com"].integrity = 1
    /\ last.op = "register"
    /\ \E o \in last.out : o.status = 500 /\ o.detail = "IntegrityError"

Unauthorized401 == HTTPException(401, "Incorrect email or password")

\* C4: a login goes on to issue a token exactly when the identity has a
\* row and the hash of that row as read is the hash of the password;
\* otherwise it is answered 401 and neither a token nor a cache entry is
\* written.  A login that went on returns the token it issued.
C4_LoginIff ==
    [][\A e \in Emails, p \in Passwords :
         LET ok == /\ Registered(e)
                   /\ Record(e).hashed_password = get_password_hash(p)
         IN /\ (\E r \in Slots : /\ Starts("login", r)
                                  /\ req'[r].email = e
                                  /\ req'[r].password = p) => ok
            /\ (Responds("login") /\ last'.cacheWrites = 0
                   /\ last'.email = e /\ last'.password = p) =>
                  /\ ~ ok
                  /\ last'.out = {Unauthorized401}
                  /\ cache' = cache
                  /\ sessionToken' = sessionToken
            /\ (Responds("login") /\ last'.cacheWrites = 1
                   /\ last'.email = e) =>
                  \E o \in last'.out : \E b \in o.body :
                     /\ o.status = 200
                     /\ b.access_token.fmt = "jwt"
                     /\ b.access_token.key = SECRET_KEY
                     /\ b.access_token.sub = {e}
                     /\ b.access_token.ts >= now
                     /\ sessionToken' = {b.access_token}]_vars

\* The seeded admin has logged in with the password set by a reset.
C4_Witness ==
    /\ last.op = "login"
    /\ last.email = AdminEmail
    /\ last.password = NewPassword
    /\ \E o \in last.out : o.status = 200
    /\ Record(AdminEmail).hashed_password = get_password_hash(NewPassword)

\* C5: a profile read that directly follows a successful login, with the
\* token of that login, returns the public fields of the row of the
\* identity; for a registered user these are role "user", active, not
\* verified.
C5_LoginThenMe ==
    [][(/\ last.op = "login"
        /\ Responds("read_users_me")
        /\ \E o \in last.out : \E b \in o.body :
              o.status = 200 /\ last'.token = {b.access_token}) =>
         /\ Registered(last.email)
         /\ last'.out = {Response(200, "", {UserOut(Record(last.email))})}
         /\ \A o \in last'.out : \A b \in o.body :
               /\ b.email = last.email
               /\ last.email # AdminEmail =>
                     b.role = "user" /\ b.is_active /\ ~ b.is_verified]_vars

\* a@x.com, whose row has an avatar, has read its profile with the token
\* in hand.
C5_Witness ==
    /\ last.op = "read_users_me"
    /\ last.token = sessionToken
    /\ Registered("a@x.com")
    /\ Record("a@x.com").avatar_url # {}
    /\ last.out = {Response(200, "", {UserOut(Record("a@x.com"))})}

\* The token is forged or of another kind, is past its exp claim, or has
\* no sub claim.
BadBearer(token, t) ==
    \/ token.fmt # "jwt"
    \/ token.key # SECRET_KEY
    \/ t > token.ts
    \/ token.sub = {}

C7_AsStated ==
    (last.op = "update_avatar" /\ \E o \in last.out : o.status # 401) =>
        \A token \in last.token : \A e \in token.sub :
            (Registered(e) /\ Record(e).role # "admin") =>
                \E o \in last.out : o.status = 403

\* C8: an avatar update that succeeds, alone: the commit changes the
\* avatar of the target row and nothing else in the table; the last step
\* finds the row with the uploaded url, writes its snapshot under the key
\* of the target with an expiry 3600 s ahead, and leaves the other keys
\* and the table alone.
C8_AvatarSuccess ==
    [][\A r \in Slots :
         /\ (req[r].pc = "commit" /\ req'[r].pc = "refresh") =>
               /\ cache' = cache
               /\ \A u \in users :
                     IF u.email = req[r].email
                     THEN [u EXCEPT !.avatar_url = req[r].url] \in users'
                     ELSE u \in users'
               /\ Cardinality(users') = Cardinality(users)
         /\ (req[r].op = "update_avatar" /\ req[r].pc = "store"
                /\ Responds("update_avatar")) =>
               /\ users' = users
               /\ Record(req[r].email).avatar_url = req[r].url
               /\ cache'[UserKey(req[r].email)] =
                     {[value |-> UserData(Record(req[r].email)),
                       expires |-> now + 3600]}
               /\ \A k \in Keys \ {UserKey(req[r].email)} :
                     cache'[k] = cache[k]
               /\ last'.out =
                     {Response(200, "", {UserOut(Record(req[r].email))})}
        ]_vars

\* The admin has replaced the avatar of a@x.com at a later time than its
\* own login: the two cache entries have different expiries.
C8_Witness ==
    /\ last.op = "update_avatar"
    /\ last.email = "a@x.com"
    /\ \E o \in last.out : o.status = 200
    /\ now > 0
    /\ cache[UserKey("a@x.com")] =
          {[value |-> UserData(Record("a@x.com")), expires |-> now + 3600]}
    /\ \E x \in cache[UserKey(AdminEmail)] : x.expires < now + 3600

UploadFailed500 == HTTPException(500, "Avatar upload failed: Upload error")

\* C9: when the upload raises, the avatar update is answered 500 with
\* "Avatar upload failed: ..." and has changed neither the table nor the
\* cache, at its first step or at the step of the upload.
C9_UploadFailure ==
    [][/\ \A r \in Slots :
            Starts("update_avatar", r) => users' = users /\ cache' = cache
       /\ (Responds("update_avatar") /\ last'.upload = "failed") =>
            /\ last'.out = {UploadFailed500}
            /\ users' = users
            /\ cache' = cache]_vars

\* The upload for a@x.com has failed; its row keeps the earlier avatar.
C9_Witness ==
    /\ last.op = "update_avatar"
    /\ last.upload = "failed"
    /\ last.email = "a@x.com"
    /\ last.out = {UploadFailed500}
    /\ Record("a@x.com").avatar_url # {}

\* C10: the request of a reset link is answered with the same message for
\* every identity and changes neither the table nor the cache; a reset
\* token is generated exactly when the identity has a row.
C10_ResetRequestUniform ==
    [][Responds("request_password_reset") =>
         /\ last'.out = {Message(GenericResetMessage)}
         /\ users' = users
         /\ cache' = cache
         /\ resetToken' =
               IF Registered(last'.email)
               THEN {generate_reset_token(last'.email, now)}
               ELSE resetToken]_vars

\* An unknown identity has got the generic message, after a token was
\* generated for a known one.
C10_Witness ==
    /\ last.op = "request_password_reset"
    /\ ~ Registered(last.email)
    /\ last.out = {Message(GenericResetMessage)}
    /\ resetToken # {}

\* C11: a login that fails is answered with one and the same response,
\* 401 "Incorrect email or password" with an empty body, after one read of
\* the users table and without a change of any store or token, whether the
\* identity has no row or has one whose hash the password does not match.
C11_LoginFailureUniform ==
    [][(Responds("login") /\ last'.cacheWrites = 0) =>
         /\ last'.out = {[status |-> 401,
                          detail |-> "Incorrect email or password",
                          body |-> {}]}
         /\ last'.dbReads = 1
         /\ last'.dbWrites = 0
         /\ last'.cacheReads = 0
         /\ <<users, cache, sessionToken, resetToken>>' =
               <<users, cache, sessionToken, resetToken>>
         /\ \/ ~ Registered(last'.email)
            \/ Record(last'.email).hashed_password.digest #
                  Digest(last'.password)]_vars

\* The login of an identity without a row has failed with the password
\* that the login of the seeded account accepts.
C11_Witness ==
    /\ last.op = "login"
    /\ ~ Registered(last.email)
    /\ last.out = {Unauthorized401}
    /\ verify_password(last.password, Record(AdminEmail).hashed_password)

ResetExpired == "The reset token has expired."

ResetInvalid == "Invalid reset token."

\* C12: the reset token generated for an identity carries the identity and
\* the time of issue; verified up to 3600 s after its issue it returns the
\* identity, later it is refused as expired; with a flipped byte it is
\* refused as invalid at any age, the expired one included; the two
\* refusals carry different details.
C12_ResetTokenAge ==
    [][/\ (Responds("request_password_reset") /\ Registered(last'.email)) =>
            \A tok \in resetToken' :
                tok.sub = {last'.email} /\ tok.ts = now
       /\ \A tok \in resetToken' :
            LET v == verify_reset_token(tok, now')
                bad == verify_reset_token(Tamper(tok), now')
            IN /\ now' - tok.ts <= 3600 =>
                     v.ok /\ v.email = tok.sub /\ tok.sub # {}
               /\ now' - tok.ts > 3600 =>
                     ~ v.ok /\ v.email = {} /\ v.detail = ResetExpired
               /\ ~ bad.ok /\ bad.email = {} /\ bad.detail = ResetInvalid
       /\ ResetExpired # ResetInvalid]_vars

\* The token in hand, issued more than 3600 s ago, has been refused as
\* expired by the reset handler.
C12_Witness ==
    /\ last.op = "reset_password"
    /\ last.token = resetToken
    /\ \A tok \in resetToken : now - tok.ts > 3600
    /\ last.out = {HTTPException(400, ResetExpired)}

ResetDone == Message("Password has been reset successfully.")

\* C13 as stated: a reset with an expired or invalid token is answered 400
\* with the reason and changes neither a password hash nor the cache; with
\* a valid token the commit puts the hash of the new password into the row
\* of the identity, and the login of that identity that follows the reset
\* goes on with the new password only.
C13_AsStated ==
    [][/\ (Responds("reset_password") /\ last'.dbReads = 0) =>
            /\ \A tok \in last'.token :
                  last'.out =
                     {HTTPException(400,
                         IF /\ tok.fmt = "itsdangerous"
                            /\ tok.key = SECRET_KEY
                            /\ now - tok.ts > 3600
                         THEN ResetExpired ELSE ResetInvalid)}
            /\ users' = users
            /\ cache' = cache
       /\ \A r \in Slots :
            (req[r].pc = "commit" /\ req[r].op = "reset_password"
                /\ req'[r].pc = "refresh") =>
               /\ Registered(req[r].email)'
               /\ Record(req[r].email)'.hashed_password.digest =
                     Digest(req[r].password)
               /\ cache' = cache
       /\ (last.op = "reset_password" /\ last.out = {ResetDone}) =>
            \A r \in Slots :
               (Starts("login", r) /\ req'[r].email = last.email) =>
                  req'[r].password = last.password]_vars

\* C17 as stated: for all passwords p and q of the input set, q verifies
\* against the hash of p exactly when q is p.
C17_AsStated ==
    last.pc = "verified" =>
        last.verified = {last.attempt = last.password}

\* C14: no step of a password reset changes the cache or the session
\* token in hand; its commit changes the password hash of the row of the
\* identity and nothing else in the users table, its other steps change
\* no row; the token issued for the identity before the reset is accepted
\* by the decoder and by the profile read after it as before.
C14_ResetFrame ==
    [][/\ \A r \in Slots :
            (req[r].op = "reset_password" \/ Starts("reset_password", r)) =>
               /\ cache' = cache
               /\ sessionToken' = sessionToken
               /\ \A tok \in sessionToken :
                     /\ decode_access_token(tok, now') =
                           decode_access_token(tok, now)
                     /\ now <= tok.ts =>
                           decode_access_token(tok, now') # {}
               /\ IF req[r].pc = "commit"
                  THEN /\ \A u \in users :
                            \E v \in users' :
                               IF u.email = req[r].email
                               THEN v = [u EXCEPT !.hashed_password =
                                       [scheme |-> "bcrypt",
                                        digest |-> Digest(req[r].password)]]
                               ELSE v = u
                       /\ Cardinality(users') = Cardinality(users)
                  ELSE users' = users
       /\ (Responds("reset_password") /\ last'.dbWrites = 0) =>
            <<users, cache, sessionToken>>' = <<users, cache, sessionToken>>
       /\ (/\ last.op = "reset_password"
           /\ last.out = {ResetDone}
           /\ Responds("read_users_me")
           /\ last'.token = sessionToken
           /\ \A tok \in sessionToken :
                 tok.sub = {last.email} /\ now <= tok.ts) =>
            \A x \in cache[UserKey(last.email)] :
                last'.out = {Response(200, "", {UserOut(x.value)})}]_vars

\* After the reset of a@x.com the token of its earlier login has been
\* accepted, and the cache entry written by that login still carries the
\* hash that the reset replaced; the seeded row is as it was.
C14_Witness ==
    /\ last.op = "read_users_me"
    /\ last.email = "a@x.com"
    /\ \E o \in last.out : o.status = 200
    /\ Record("a@x.com").hashed_password = get_password_hash(NewPassword)
    /\ \E x \in cache[UserKey("a@x.com")] :
          x.value.hashed_password = get_password_hash(RegisterPassword)
    /\ SeedAdmin \in users

\* C15: the token a login issues carries the identity as sub and an exp
\* claim 30 minutes after the issue, which is later than the issue; the
\* token in hand decodes to these claims at every time up to its exp and
\* to None at every later time; the token with a flipped byte and a token
\* of another format decode to None at any time; a handler given a token
\* that decodes to None answers 401 and does not fail.
C15_SessionTokenLife ==
    [][/\ \A r \in Slots :
            Starts("login", r) =>
               \A tok \in req'[r].token :
                  /\ tok.sub = {req'[r].email}
                  /\ tok.ts = now + 30 * 60
                  /\ tok.ts > now
                  /\ decode_access_token(tok, now) =
                        {[sub |-> {req'[r].email}, exp |-> now + 30 * 60]}
       /\ \A tok \in sessionToken' :
            /\ now' <= tok.ts =>
                  decode_access_token(tok, now') =
                     {[sub |-> tok.sub, exp |-> tok.ts]}
            /\ now' > tok.ts => decode_access_token(tok, now') = {}
            /\ decode_access_token(Tamper(tok), now') = {}
       /\ \A tok \in resetToken' : decode_access_token(tok, now') = {}
       /\ (/\ Responds("read_users_me") \/ Responds("update_avatar")
           /\ \A tok \in last'.token :
                 decode_access_token(tok, now) = {}) =>
            last'.out = {HTTPException(401, "Invalid token")}]_vars

\* The token in hand was accepted up to its exp claim and has now been
\* refused, past it.
C15_Witness ==
    /\ last.op = "read_users_me"
    /\ last.token = sessionToken
    /\ \A tok \in sessionToken : now > tok.ts
    /\ sessionToken # {}
    /\ last.out = {HTTPException(401, "Invalid token")}

\* C16: a reset token given as bearer token to the profile read or to the
\* avatar update is answered 401 before a read of either store, and a
\* session token given to the password reset is answered 400 "Invalid
\* reset token." before a read of the users table, whatever the identity
\* and the age of the token; no such request goes on to an await.
C16_TokenKindsApart ==
    [][/\ \A r \in Slots :
            /\ Starts("update_avatar", r) =>
                  \A tok \in req'[r].token : tok.fmt = "jwt"
            /\ Starts("reset_password", r) =>
                  \A tok \in req'[r].token : tok.fmt = "itsdangerous"
       /\ (/\ Responds("read_users_me") \/ Responds("update_avatar")
           /\ \E tok \in last'.token : tok.fmt = "itsdangerous") =>
            /\ last'.out = {HTTPException(401, "Invalid token")}
            /\ last'.cacheReads = 0
            /\ last'.dbReads = 0
       /\ (/\ Responds("reset_password")
           /\ \E tok \in last'.token : tok.fmt = "jwt") =>
            /\ last'.out = {HTTPException(400, "Invalid reset token.")}
            /\ last'.dbReads = 0
            /\ users' = users]_vars

\* The session token in hand, not expired, has been given to the password
\* reset and refused as invalid.
C16_Witness ==
    /\ last.op = "reset_password"
    /\ last.token = sessionToken
    /\ \E tok \in sessionToken : tok.fmt = "jwt" /\ now <= tok.ts
    /\ last.out = {HTTPException(400, "Invalid reset token.")}

\* The bcrypt hash of the plaintext: a digest under the scheme, never the
\* plaintext.
Hashed(h, plaintext) ==
    /\ h.scheme = "bcrypt"
    /\ h.digest[1] = "$2b$"
    /\ h.digest = Digest(plaintext)

\* C18: the commit of a registration puts into the new row the bcrypt hash
\* of the password of the request, the commit of a reset puts the hash of
\* the new password into the row of the identity, and no other step
\* changes the hash of a row; a login holds a row as read from the table
\* and the cache entry it writes carries the hash of that row; so every
\* hash in the table and in the cache is a bcrypt hash of a supplied
\* plaintext.
C18_HashedOnly ==
    [][/\ \A r \in Slots :
            /\ (req[r].pc = "create_user" /\ req'[r].pc = "refresh") =>
                  /\ Cardinality(get_user_by_email(users', req[r].email)) = 1
                  /\ \A u \in users' \ users :
                        /\ u.email = req[r].email
                        /\ Hashed(u.hashed_password, req[r].password)
                  /\ \A u \in users : u \in users'
            /\ (req[r].op = "reset_password" /\ req[r].pc = "commit"
                    /\ req'[r].pc = "refresh") =>
                  \A u \in users' :
                     IF u.email = req[r].email
                     THEN Hashed(u.hashed_password, req[r].password)
                     ELSE u \in users
            /\ ~ (req[r].pc \in {"create_user", "commit"}
                     /\ req'[r].pc = "refresh") =>
                  (req'[r] # req[r] => users' = users)
            /\ Starts("login", r) => req'[r].user \subseteq users
            /\ (req[r].op = "login" /\ req[r].pc = "store"
                    /\ req'[r].pc = "idle") =>
                  \A u \in req[r].user : \A x \in cache'[UserKey(u.email)] :
                     x.value.hashed_password = u.hashed_password
       /\ \A u \in users' :
            \E p \in Passwords : Hashed(u.hashed_password, p)
       /\ \A k \in Keys : \A x \in cache'[k] :
            \E p \in Passwords : Hashed(x.value.hashed_password, p)]_vars

\* a@x.com registered with one password and reset it to the other: its
\* row carries the hash of the second, the cache entry written by the
\* login between the two carries the hash of the first.
C18_Witness ==
    /\ last.op = "reset_password"
    /\ last.email = "a@x.com"
    /\ last.out = {ResetDone}
    /\ Registered("a@x.com")
    /\ Hashed(Record("a@x.com").hashed_password, last.password)
    /\ \E x \in cache[UserKey("a@x.com")] :
          ~ Hashed(x.value.hashed_password, last.password)

\* C19: the entry under "user:" + identity changes only when a login of
\* that identity or an avatar update that targets it is answered 200,
\* which sets its expiry 3600 s ahead, or when the clock reaches its
\* expiry, which removes it; every login and avatar update answered 200
\* writes the entry; no other handler and no failed request changes the
\* cache; an entry is gone 3600 s after its last write.
C19_CacheWrites ==
    [][/\ \A e \in Emails :
            LET k == "user:" \o e
            IN /\ cache'[k] # cache[k] =>
                    \/ /\ cache'[k] = {}
                       /\ \A x \in cache[k] : now' >= x.expires
                       /\ now' > now
                    \/ /\ Responds("login") \/ Responds("update_avatar")
                       /\ last'.email = e
                       /\ \E o \in last'.out : o.status = 200
               /\ (/\ Responds("login") \/ Responds("update_avatar")
                   /\ last'.email = e
                   /\ \E o \in last'.out : o.status = 200) =>
                    /\ last'.cacheWrites = 1
                    /\ Cardinality(cache'[k]) = 1
                    /\ \A x \in cache'[k] : x.expires = now + 3600
       /\ (\E op \in {"register", "read_users_me", "request_password_reset",
                       "reset_password"} : Responds(op)) =>
            cache' = cache /\ last'.cacheWrites = 0
       /\ (\E o \in last'.out : o.status >= 400) =>
            cache' = cache /\ last'.cacheWrites = 0
       /\ \A k \in Keys : \A x \in cache'[k] :
            now' < x.expires /\ x.expires <= now' + 3600]_vars

\* 3600 s after the login that issued the token in hand, with no write
\* since, the entry of the seeded account is gone; the entry of a@x.com,
\* written later, is there.
C19_Witness ==
    /\ \E tok \in sessionToken :
          tok.sub = {AdminEmail} /\ now - (tok.ts - 30 * 60) >= 3600
    /\ cache[UserKey(AdminEmail)] = {}
    /\ cache[UserKey("a@x.com")] # {}

\* C20 as stated: the content of every cache entry is a value that the
\* row of its identity held at most 3600 s ago.  An entry whose hash is
\* not the hash of the row carries a value that the row has not held since
\* the latest replacement of its hash, so that replacement is at most
\* 3600 s old.
C20_AsStated ==
    \A e \in Emails : \A x \in cache[UserKey(e)] :
        /\ Registered(e)
        /\ x.value.hashed_password # Record(e).hashed_password =>
              now - regLog[e].pwChanged <= 3600

\* C20 amended: the row a login holds is the row as read by its lookup,
\* the row an avatar update holds at the store is the row as read by its
\* refresh; the entry a request writes is the snapshot of the row it
\* holds, under the key of that row, with an expiry 3600 s after the
\* write; no other step puts content into the cache; every entry is gone
\* 3600 s after its write.  The content is as old as the read, not the
\* write: a commit between the two is not in it.
C20_DerivedView ==
    [][/\ \A r \in Slots :
            /\ Starts("login", r) => req'[r].user \subseteq users
            /\ (req[r].op = "update_avatar" /\ req[r].pc = "refresh"
                    /\ req'[r].pc = "store") =>
                  req'[r].user \subseteq users /\ req'[r].user # {}
            /\ (req[r].pc = "store" /\ req'[r].pc = "store") =>
                  req'[r].user = req[r].user
            /\ (req[r].pc = "store" /\ req'[r].pc = "idle") =>
                  \A u \in req[r].user :
                     cache' = [cache EXCEPT !["user:" \o u.email] =
                                 {[value |->
                                     [id |-> u.id, email |-> u.email,
                                      hashed_password |-> u.hashed_password,
                                      is_active |-> u.is_active,
                                      is_verified |-> u.is_verified,
                                      avatar_url |-> u.avatar_url,
                                      role |-> u.role],
                                   expires |-> now + 3600]}]
       /\ \A k \in Keys :
            cache'[k] # cache[k] =>
               \/ \E r \in Slots : req[r].pc = "store" /\ req'[r].pc = "idle"
               \/ cache'[k] = {} /\ now' > now
       /\ \A k \in Keys : \A x \in cache'[k] :
            now' < x.expires /\ x.expires <= now' + 3600]_vars

\* A login read the row, a reset replaced the hash, the login wrote its
\* snapshot later: the entry is alive more than 3600 s after the row
\* last held its content.
C20_Witness ==
    \E x \in cache[UserKey(AdminEmail)] :
        /\ now < x.expires
        /\ x.value.hashed_password = get_password_hash(RegisterPassword)
        /\ Record(AdminEmail).hashed_password =
              get_password_hash(NewPassword)
        /\ now - regLog[AdminEmail].pwChanged > 3600

\* ------------------------------------------------------ contacts claims
ContactAt(i) == {c \in contacts : c.id = i}

ContactNotFound == HTTPException(404, "Contact not found")

UpdateCommits(r) ==
    /\ req[r].op = "update_contact"
    /\ req[r].pc = "commit"
    /\ req'[r] # req[r]

\* The contact with the id of the update in slot r is changed in the
\* fields of the payload, to the values of the payload, and in no other
\* field; every other contact is as it was.
UpdateApplied(r) ==
    LET id == req[r].contact_id
    IN  /\ Cardinality(contacts') = Cardinality(contacts)
        /\ \A c \in contacts : c.id # id => c \in contacts'
        /\ \A o \in ContactAt(id) : \A p \in req[r].contact :
              \E n \in contacts' :
                 /\ n.id = id
                 /\ \A f \in DOMAIN o :
                       n[f] = IF f \in DOMAIN p THEN p[f] ELSE o[f]

\* C22 as stated: the commit of every update of an existing contact
\* changes exactly the fields of the payload.
C22_AsStated ==
    [][\A r \in Slots :
          UpdateCommits(r) =>
             ContactAt(req[r].contact_id) # {} /\ UpdateApplied(r)]_vars

\* The payload of the update in slot r sets the email of another contact.
EmailOfAnother(r) ==
    \E p \in req[r].contact :
       /\ "email" \in DOMAIN p
       /\ \E c \in contacts : c.id # req[r].contact_id /\ c.email = p.email

\* C22 amended: an update whose payload sets the email of another contact
\* fails at its commit on the unique constraint, is answered 500 and
\* changes no contact; the commit of every other update of an existing
\* contact changes exactly the fields of the payload to the values given,
\* and the update is answered with the contact as changed.
C22_UpdateFrame ==
    [][\A r \in Slots :
          /\ UpdateCommits(r) =>
                /\ ContactAt(req[r].contact_id) # {}
                /\ IF EmailOfAnother(r)
                   THEN /\ contacts' = contacts
                        /\ last'.out = {Unhandled("IntegrityError")}
                   ELSE /\ UpdateApplied(r)
                        /\ req'[r].pc = "refresh"
          /\ (req[r].op = "update_contact" /\ req[r].pc = "refresh"
                 /\ req'[r] # req[r]) =>
                /\ contacts' = contacts
                /\ last'.out =
                      {Response(200, "", ContactAt(req[r].contact_id))}]_vars

\* Of two contacts, one has been given a birthday and a note by an
\* update that has been answered with it; the other is as created.
C22_Witness ==
    /\ last.op = "update_contact"
    /\ last.contact = {[birthday |-> MidYear + 3,
                        additional_data |-> {"note"}]}
    /\ Cardinality(contacts) = 2
    /\ \E c \in contacts :
          /\ c.id = last.contact_id
          /\ c.birthday = MidYear + 3
          /\ c.additional_data = {"note"}
          /\ c.first_name = "Ann"
          /\ last.out = {Response(200, "", {c})}

\* The contact has a birthday on the day: the day is the day of the year
\* of its date of birth, in the year of birth or a later one.
BirthdayOn(c, day) ==
    DayOfYear(c.birthday) = DayOfYear(day) /\ c.birthday <= day

\* C23 as stated: the answer of the upcoming-birthdays query is the set of
\* the contacts that have a birthday on one of the days from today to
\* today + 7, whatever the year of their date of birth.
C23_AsStated ==
    [][Responds("upcoming_birthdays") =>
          last'.out =
             {Response(200, "",
                 {c \in contacts :
                     \E d \in date(now) .. date(now) + BirthdayWindowDays :
                        BirthdayOn(c, d)})}]_vars

\* ------------------------------------------------------ round trips
OrchestratorOps ==
    {"register", "login", "read_users_me", "update_avatar",
     "request_password_reset", "reset_password"}

\* C24 as stated: a request has made at most one read and one write round
\* trip to the users table and at most one read and one write round trip
\* to the cache when it is answered.
C24_AsStated ==
    [][\A op \in OrchestratorOps :
          Responds(op) =>
             /\ last'.dbReads <= 1
             /\ last'.dbWrites <= 1
             /\ last'.cacheReads <= 1
             /\ last'.cacheWrites <= 1]_vars

\* C24 amended: a request makes at most one write round trip to the users
\* table and at most one read and one write round trip to the cache; it
\* reads the users table at most once, except that a registration, an
\* avatar update and a password reset read it a second time, after their
\* commit, when they refresh the row, which every one of them that is
\* answered 200 or 201 has done.
C24_RoundTrips ==
    [][\A op \in OrchestratorOps :
          Responds(op) =>
             /\ last'.dbWrites <= 1
             /\ last'.cacheReads <= 1
             /\ last'.cacheWrites <= 1
             /\ last'.dbReads <=
                   (IF op \in {"register", "update_avatar", "reset_password"}
                    THEN 2 ELSE 1)
             /\ last'.dbReads = 2 => last'.dbWrites = 1
             /\ (/\ op \in {"register", "update_avatar", "reset_password"}
                 /\ \E o \in last'.out : o.status \in {200, 201}) =>
                   last'.dbReads = 2]_vars

\* An avatar update has been answered 200 after two reads and one write
\* of the users table and one read and one write of the cache.
C24_Witness ==
    /\ last.op = "update_avatar"
    /\ \E o \in last.out : o.status = 200
    /\ last.dbReads = 2
    /\ last.dbWrites = 1
    /\ last.cacheReads = 1
    /\ last.cacheWrites = 1

\* C25: a profile read with the token that the latest login returned, made
\* before the token expires, is answered 200, never 404; while that token
\* has not expired, the cache holds the entry of its identity, with an
\* expiry later than that of the token.
C25_TokenFindsEntry ==
    [][/\ (/\ Responds("read_users_me")
           /\ last'.token \subseteq sessionToken
           /\ \E tok \in last'.token : now <= tok.ts) =>
             \E o \in last'.out : o.status = 200
       /\ \A tok \in sessionToken' :
            now' <= tok.ts =>
               \A e \in tok.sub :
                  \E x \in cache'["user:" \o e] : x.expires > tok.ts]_vars

\* A profile read at the last instant of the life of the token, 1800 s
\* after the login of a@x.com that returned it, has been answered 200.
C25_Witness ==
    /\ last.op = "read_users_me"
    /\ last.token = sessionToken
    /\ last.email = "a@x.com"
    /\ \E tok \in sessionToken : now = tok.ts
    /\ now > 0
    /\ \E o \in last.out : o.status = 200

\* C26 as stated: when no request is in flight, the avatar in every cache
\* entry is the avatar in the row of its identity.
C26_AsStated ==
    Quiet =>
       \A e \in Emails : \A x \in cache[UserKey(e)] :
          \A u \in get_user_by_email(users, e) :
             x.value.avatar_url = u.avatar_url

\* C27 as stated: an avatar update whose token is accepted is answered
\* 200, 404, 403 or with the error of the failed upload, whatever the cache
\* holds for the identity of the token.
C27_AsStated ==
    [][(/\ Responds("update_avatar")
        /\ last'.out # {HTTPException(401, "Invalid token")}) =>
          \E o \in last'.out :
             \/ o.status \in {200, 403, 404}
             \/ o = UploadFailed500]_vars

\* Two views of an account agree on id, identity, role and the two flags.
SameAccount(a, b) ==
    /\ a.id = b.id
    /\ a.email = b.email
    /\ a.role = b.role
    /\ a.is_active = b.is_active
    /\ a.is_verified = b.is_verified

\* C28: every step leaves every row of the users table in the table with
\* its id, identity, role, active flag and verified flag; every cache
\* entry is under the key of its identity and agrees with the row of that
\* identity on id, identity, role and the two flags; the role that the
\* admin check of an avatar update reads is the role in the row of the
\* acting identity.
C28_AccountFieldsFixed ==
    [][/\ \A u \in users : \E v \in users' : SameAccount(u, v)
       /\ \A e \in Emails : \A x \in cache'["user:" \o e] :
            /\ x.value.email = e
            /\ \E u \in users' : SameAccount(x.value, u)
       /\ \A r \in Slots :
            (req[r].op = "update_avatar" /\ req[r].pc = "get_user"
                /\ req'[r] # req[r]) =>
               \A a \in req[r].actor :
                  \E u \in users : u.email = a.email /\ u.role = a.role]_vars

\* The admin has passed the admin check and has given a@x.com an avatar;
\* the entries of both accounts are in the cache, each with the role of
\* its row.
C28_Witness ==
    /\ last.op = "update_avatar"
    /\ last.email = "a@x.com"
    /\ \E o \in last.out : o.status = 200
    /\ \E x \in cache[UserKey(AdminEmail)] : x.value.role = "admin"
    /\ \E x \in cache[UserKey("a@x.com")] :
          /\ x.value.role = "user"
          /\ x.value.avatar_url # {}
    /\ Cardinality(users) = 2

\* The reset token in hand has served: the row of its identity carries a
\* hash that only a reset has put there, by a commit no earlier than the
\* issue of the token, after which no other token was in hand.
Redeemed(tok) ==
    \E e \in tok.sub :
       /\ Registered(e)
       /\ Record(e).hashed_password # get_password_hash(RegisterPassword)
       /\ regLog[e].pwChanged >= tok.ts

\* C29: a reset with the token in hand that has served already, sent no
\* later than 3600 s after the issue of the token, is not refused: it goes
\* on to its commit, which puts the hash of the password of this request
\* into the row of the identity, and is answered with the success message.
C29_ResetTokenReusable ==
    [][\A r \in Slots :
          /\ \A tok \in resetToken :
                (/\ Quiet
                 /\ Redeemed(tok)
                 /\ now - tok.ts <= 3600
                 /\ \/ Starts("reset_password", r) /\ req'[r].token = {tok}
                    \/ Responds("reset_password") /\ last'.token = {tok}) =>
                   /\ req'[r].pc = "commit"
                   /\ req'[r].email \in tok.sub
          /\ (req[r].op = "reset_password" /\ req[r].pc = "commit"
                 /\ req'[r] # req[r]) =>
                /\ req'[r].pc = "refresh"
                /\ \A u \in users' :
                      u.email = req[r].email =>
                         u.hashed_password.digest[2] =
                            (IF Len(req[r].password) <= 72
                             THEN req[r].password
                             ELSE SubSeq(req[r].password, 1, 72))
          /\ (req[r].op = "reset_password" /\ req[r].pc = "refresh"
                 /\ req'[r] # req[r]) =>
                last'.out = {ResetDone}]_vars

\* The token issued at time 0 has served twice before any time has
\* passed: the entry written by the login between the two resets carries
\* the hash of the password of the first, the row the hash of the password
\* of the second, which has been answered with the success message.
C29_Witness ==
    /\ now = 0
    /\ last.op = "reset_password"
    /\ last.token = resetToken
    /\ last.password = NewPassword
    /\ last.out = {ResetDone}
    /\ Record(AdminEmail).hashed_password = get_password_hash(NewPassword)
    /\ \E x \in cache[UserKey(AdminEmail)] :
          x.value.hashed_password = get_password_hash(LongPassword)

\* C30: a reset link is issued for an identity that has a row only, no
\* step takes a row out of the users table, and a reset made with the
\* link in hand is never answered 404.
C30_ResetFindsRecord ==
    [][/\ \A tok \in resetToken' : \A e \in tok.sub :
            \E u \in users' : u.email = e
       /\ \A u \in users : \E v \in users' : v.id = u.id /\ v.email = u.email
       /\ (Responds("reset_password") /\ last'.token \subseteq resetToken) =>
             \A o \in last'.out : o.status # 404]_vars

\* a@x.com, registered after the start, has asked for a link and has
\* reset its password with it.
C30_Witness ==
    /\ last.op = "reset_password"
    /\ last.email = "a@x.com"
    /\ last.token = resetToken
    /\ last.out = {ResetDone}
    /\ last.dbReads = 2

====
